---------------------------- MODULE Spec2Model ----------------------------
(***************************************************************************)
(* A model of the LTC2946 hwmon driver (drivers/hwmon/ltc2946.c): the      *)
(* register codec, the nine sysfs attribute handlers, and probe.           *)
(*                                                                         *)
(* C integers keep their width.  The values of the driver exceed what a    *)
(* TLC integer holds (0xFFFFFF * 31250, any u32 above 2^31), so a C value  *)
(* is a natural number written as a sequence of base-256 digits, least     *)
(* significant first, with no leading zero digit (zero is <<>>), and a     *)
(* signed value is a sign and such a magnitude.  Bytes and register        *)
(* addresses are plain integers.                                           *)
(***************************************************************************)
EXTENDS Integers, Sequences, FiniteSets, TLC

VARIABLES
    bits_per_long,  \* the build: width of long, unsigned long and ssize_t
    of_node,        \* the device-tree node handed to probe
    data,           \* struct ltc2946_data (the calibration part)
    pc,             \* where ltc2946_probe stands
    hwmon_dev,      \* result of devm_hwmon_device_register_with_groups
    probe_ret,      \* what ltc2946_probe returned
    regs,           \* the chip's registers, one byte per address
    last,           \* the latest sysfs or codec call and what it returned
    written,        \* the latest completed register write not yet overwritten
    calls           \* how many sysfs calls and chip updates there have been

vars == <<bits_per_long, of_node, data, pc, hwmon_dev, probe_ret, regs, last, written,
          calls>>

\* The model follows a device for this many sysfs calls and chip updates.
MaxCalls == 2

---------------------------------------------------------------------------
(* Program constants.                                                      *)

REG_CTRLA == 0
REG_POWER_MAX == 8
REG_POWER_MIN == 11
REG_POWER == 5
POWER_VALUE_TO_NWATT == 31250
REG_VOLTAGE_MAX == 44
REG_VOLTAGE_MIN == 42
REG_VOLTAGE == 40
VOLTAGE_VALUE_TO_MICROVOLT == 500
REG_SENSE_MAX == 22
REG_SENSE_MIN == 24
REG_SENSE == 20
SENSE_RESISTANCE_MICROOHM_DEFAULT == 1000
SENSE_VALUE_TO_NANOVOLT == 25000
ADIN_R1_DEFAULT == 1
ADIN_R2_DEFAULT == 1000
CTRLA_ADIN == 16
EINVAL == 22
ENOMEM == 12

---------------------------------------------------------------------------
(* Arithmetic on naturals of any size.                                     *)

RECURSIVE Strip(_)
Strip(s) ==
    IF s = <<>> THEN s
    ELSE IF s[Len(s)] = 0 THEN Strip(SubSeq(s, 1, Len(s) - 1)) ELSE s

RECURSIVE Big(_)
Big(n) == IF n = 0 THEN <<>> ELSE <<n % 256>> \o Big(n \div 256)

\* The plain integer of a value known to be below 2^31.
RECURSIVE Small(_)
Small(s) == IF s = <<>> THEN 0 ELSE s[1] + 256 * Small(Tail(s))

Digit(s, i) == IF i <= Len(s) THEN s[i] ELSE 0

RECURSIVE AddFrom(_, _, _, _)
AddFrom(a, b, i, c) ==
    IF i > Len(a) /\ i > Len(b) THEN (IF c = 0 THEN <<>> ELSE <<c>>)
    ELSE LET t == Digit(a, i) + Digit(b, i) + c
         IN  <<t % 256>> \o AddFrom(a, b, i + 1, t \div 256)

Add(a, b) == AddFrom(a, b, 1, 0)

RECURSIVE SubFrom(_, _, _, _)
SubFrom(a, b, i, c) ==
    IF i > Len(a) THEN <<>>
    ELSE LET t == Digit(a, i) - Digit(b, i) - c
         IN  <<t % 256>> \o SubFrom(a, b, i + 1, IF t < 0 THEN 1 ELSE 0)

\* a - b, for b <= a.
Sub(a, b) == Strip(SubFrom(a, b, 1, 0))

RECURSIVE LessFrom(_, _, _)
LessFrom(a, b, i) ==
    IF i = 0 THEN FALSE
    ELSE IF a[i] # b[i] THEN a[i] < b[i] ELSE LessFrom(a, b, i - 1)

Less(a, b) == IF Len(a) # Len(b) THEN Len(a) < Len(b) ELSE LessFrom(a, b, Len(a))

Leq(a, b) == ~Less(b, a)

RECURSIVE MulFrom(_, _, _, _)
MulFrom(a, k, i, c) ==
    IF i > Len(a) THEN Big(c)
    ELSE LET t == a[i] * k + c
         IN  <<t % 256>> \o MulFrom(a, k, i + 1, t \div 256)

\* a * k for one digit k.
MulDigit(a, k) == Strip(MulFrom(a, k, 1, 0))

RECURSIVE Mul(_, _)
Mul(a, b) ==
    IF a = <<>> \/ b = <<>> THEN <<>>
    ELSE LET rest == Mul(a, Tail(b))
         IN  Add(MulDigit(a, b[1]), IF rest = <<>> THEN <<>> ELSE <<0>> \o rest)

\* Short division by a plain integer k below 2^16, most significant digit
\* first; the remainder is a plain integer.
ShortDivStep(h, lo, k) ==
    LET cur == h.r * 256 + lo
    IN  [q |-> IF cur < k /\ h.q = <<>> THEN <<>> ELSE <<cur \div k>> \o h.q,
         r |-> cur % k]

RECURSIVE ShortDiv(_, _)
ShortDiv(a, k) ==
    IF a = <<>> THEN [q |-> <<>>, r |-> 0]
    ELSE ShortDivStep(ShortDiv(Tail(a), k), a[1], k)

\* The largest digit d with d * b <= cur, found bit by bit.
RECURSIVE QuotDigit(_, _, _, _)
QuotDigit(cur, b, d, bit) ==
    IF bit = 0 THEN d
    ELSE IF Less(cur, MulDigit(b, d + bit)) THEN QuotDigit(cur, b, d, bit \div 2)
         ELSE QuotDigit(cur, b, d + bit, bit \div 2)

LongDivStep(h, lo, b) ==
    LET cur == Strip(<<lo>> \o h.r)
        d == QuotDigit(cur, b, 0, 128)
    IN  [q |-> Strip(<<d>> \o h.q), r |-> Sub(cur, MulDigit(b, d))]

\* Long division by any b # 0, most significant digit first.
RECURSIVE LongDiv(_, _)
LongDiv(a, b) ==
    IF a = <<>> THEN [q |-> <<>>, r |-> <<>>]
    ELSE LongDivStep(LongDiv(Tail(a), b), a[1], b)

\* Quotient and remainder of naturals, b # 0.
DivMod(a, b) ==
    IF Less(a, b) THEN [q |-> <<>>, r |-> a]
    ELSE IF Len(b) <= 2
         THEN LET h == ShortDiv(a, Small(b)) IN [q |-> h.q, r |-> Big(h.r)]
         ELSE LongDiv(a, b)

\* Truncating division of naturals.
Div(a, b) == DivMod(a, b).q

\* 2^w and 2^(w-1), for w a multiple of 8.
Pow2(w) == [i \in 1..(w \div 8 + 1) |-> IF i = w \div 8 + 1 THEN 1 ELSE 0]
HalfPow2(w) == [i \in 1..(w \div 8) |-> IF i = w \div 8 THEN 128 ELSE 0]

\* a mod 2^w: what a w-bit unsigned type keeps of a.
ModPow2(a, w) == Strip(SubSeq(a, 1, IF Len(a) < w \div 8 THEN Len(a) ELSE w \div 8))

---------------------------------------------------------------------------
(* Signed values and the C conversions between the integer types.          *)

Signed(neg, mag) == [neg |-> neg /\ mag # <<>>, mag |-> mag]

\* Whether a signed value is one a w-bit signed type holds.
FitsSigned(s, w) == IF s.neg THEN Leq(s.mag, HalfPow2(w)) ELSE Less(s.mag, HalfPow2(w))

\* Conversion to a w-bit unsigned type: the value modulo 2^w.
ToUnsigned(s, w) ==
    LET m == ModPow2(s.mag, w)
    IN  IF s.neg /\ m # <<>> THEN Sub(Pow2(w), m) ELSE m

\* A w-bit pattern read as a w-bit signed value.
ToSigned(u, w) ==
    IF Less(u, HalfPow2(w)) THEN Signed(FALSE, u) ELSE Signed(TRUE, Sub(Pow2(w), u))

\* Signed product and truncating signed quotient, exact.
SMul(a, b) == Signed(a.neg # b.neg, Mul(a.mag, b.mag))
SDiv(a, b) == Signed(a.neg # b.neg, Div(a.mag, b.mag))

\* Bit operations on plain non-negative integers.
RECURSIVE BitAnd(_, _)
BitAnd(a, b) ==
    IF a = 0 \/ b = 0 THEN 0
    ELSE (a % 2) * (b % 2) + 2 * BitAnd(a \div 2, b \div 2)

RECURSIVE BitOr(_, _)
BitOr(a, b) ==
    IF a = 0 THEN b
    ELSE IF b = 0 THEN a
    ELSE (IF a % 2 = 1 \/ b % 2 = 1 THEN 1 ELSE 0) + 2 * BitOr(a \div 2, b \div 2)

Shl(a, k) == a * 2^k
Shr(a, k) == a \div 2^k

---------------------------------------------------------------------------
(* Text: a string is a sequence of one-character strings.                  *)

DigitChars == <<"0", "1", "2", "3", "4", "5", "6", "7", "8", "9">>

DigitValues == [c \in {DigitChars[i] : i \in 1..10} |->
                    (CHOOSE i \in 1..10 : DigitChars[i] = c) - 1]
IsDigit(c) == c \in DOMAIN DigitValues
DigitValue(c) == DigitValues[c]

RECURSIVE DecimalFrom(_)
DecimalStep(h) == DecimalFrom(h.q) \o <<DigitChars[h.r + 1]>>
DecimalFrom(n) == IF n = <<>> THEN <<>> ELSE DecimalStep(ShortDiv(n, 10))

\* The decimal digits of a natural.
Decimal(n) == IF n = <<>> THEN <<"0">> ELSE DecimalFrom(n)

\* The text of a signed value.
SignedText(s) == (IF s.neg THEN <<"-">> ELSE <<>>) \o Decimal(s.mag)

\* sprintf(buf, "%ld\n", output) with an unsigned long argument of w bits:
\* %ld prints the bit pattern as a long.
sprintf_ld(output, w) == SignedText(ToSigned(output, w)) \o <<"\n">>

\* _parse_integer: the number of leading digits of s and their value.
RECURSIVE LeadingDigits(_)
LeadingDigits(s) ==
    IF s = <<>> \/ ~IsDigit(s[1]) THEN 0 ELSE 1 + LeadingDigits(Tail(s))

\* res = res * 10 + digit over characters i..n of s, stopping at the first
\* value an unsigned long long does not hold (KSTRTOX_OVERFLOW).
RECURSIVE DigitsValueFrom(_, _, _, _)
DigitsValueFrom(s, i, n, res) ==
    IF i > n \/ Len(res) > 8 THEN res
    ELSE DigitsValueFrom(s, i + 1, n, Add(MulDigit(res, 10), Big(DigitValue(s[i]))))

DigitsValue(s, n) == DigitsValueFrom(s, 1, n, <<>>)

\* _kstrtoull(s, 10, &res): digits, then at most one newline, then the end.
\* err is 0, -ERANGE (-34) or -EINVAL.
kstrtoull_tail(s) ==
    LET rv == LeadingDigits(s)
        res == DigitsValue(s, rv)
        rest == SubSeq(s, rv + 1, Len(s))
        after == IF rest # <<>> /\ rest[1] = "\n" THEN Tail(rest) ELSE rest
    IN  IF Len(res) > 8 THEN [err |-> -34, val |-> <<>>]
        ELSE IF rv = 0 THEN [err |-> -EINVAL, val |-> <<>>]
        ELSE IF after # <<>> THEN [err |-> -EINVAL, val |-> <<>>]
        ELSE [err |-> 0, val |-> res]

\* kstrtoll(s, 10, &res): a leading '-' negates, a leading '+' is skipped.
kstrtoll(s) ==
    IF s # <<>> /\ s[1] = "-"
    THEN LET t == kstrtoull_tail(Tail(s))
         IN  IF t.err # 0 THEN [err |-> t.err, val |-> Signed(FALSE, <<>>)]
             ELSE IF Less(HalfPow2(64), t.val)
                  THEN [err |-> -34, val |-> Signed(FALSE, <<>>)]
             ELSE [err |-> 0, val |-> Signed(TRUE, t.val)]
    ELSE LET t == kstrtoull_tail(IF s # <<>> /\ s[1] = "+" THEN Tail(s) ELSE s)
         IN  IF t.err # 0 THEN [err |-> t.err, val |-> Signed(FALSE, <<>>)]
             ELSE IF Leq(HalfPow2(64), t.val)
                  THEN [err |-> -34, val |-> Signed(FALSE, <<>>)]
             ELSE [err |-> 0, val |-> Signed(FALSE, t.val)]

\* kstrtol(buf, 10, &input): kstrtoll, and -ERANGE when the value is no long.
kstrtol(s, w) ==
    LET t == kstrtoll(s)
    IN  IF t.err = 0 /\ ~FitsSigned(t.val, w)
        THEN [err |-> -34, val |-> Signed(FALSE, <<>>)]
        ELSE t

---------------------------------------------------------------------------
(* The bus and the register codec.                                         *)

\* The byte addresses the driver touches: CTRLA, three 24-bit power
\* registers, three 12-bit sense registers, three 12-bit ADIN registers.
RegBytes == {REG_CTRLA} \cup (REG_POWER..(REG_POWER_MIN + 2))
            \cup (REG_SENSE..(REG_SENSE_MIN + 1))
            \cup (REG_VOLTAGE..(REG_VOLTAGE_MAX + 1))

\* A bus transaction ends with 0 or with a negative errno of the adapter.
BusResults == {0, -5, -6}

\* i2c_smbus_read_i2c_block_data into a zeroed buffer: the register bytes on
\* success, the buffer untouched on failure.
i2c_read(r, address, n, e) ==
    [i \in 1..n |-> IF e = 0 THEN r[address + i - 1] ELSE 0]

\* i2c_smbus_write_i2c_block_data: the registers after the transaction.
i2c_write(r, address, bytes, e) ==
    IF e # 0 THEN r
    ELSE [a \in DOMAIN r |->
            IF a >= address /\ a < address + Len(bytes) THEN bytes[a - address + 1]
            ELSE r[a]]

\* clamp_val(value, lo, hi) on unsigned int: min(max(value, lo), hi).
clamp_val(value, lo, hi) ==
    LET m == IF Less(value, lo) THEN lo ELSE value
    IN  IF Less(hi, m) THEN hi ELSE m

read_uint24(r, address, e) ==
    LET bytes == i2c_read(r, address, 3, e)
    IN  BitOr(BitOr(Shl(bytes[1], 16), Shl(bytes[2], 8)), bytes[3])

\* The driver's return value and the registers after the call.
write_uint24(r, address, value, e) ==
    LET input == Small(clamp_val(value, <<>>, Big(\hFFFFFF)))
        bytes == << BitAnd(\hFF, Shr(input, 16)),
                    BitAnd(\hFF, Shr(input, 8)),
                    BitAnd(\hFF, input) >>
    IN  [retval |-> e, regs |-> i2c_write(r, address, bytes, e)]

read_uint12(r, address, e) ==
    LET bytes == i2c_read(r, address, 2, e)
    IN  BitAnd(\hFFF, BitAnd(\hFF0, Shl(bytes[1], 4)) + BitAnd(\hF, Shr(bytes[2], 4)))

\* The 12-bit encoder cutting the value to its low 12 bits where the driver
\* clamps it.
write_uint12_masked(r, address, value, e) ==
    LET input == Small(ModPow2(value, 16)) % 4096
        bytes == << BitAnd(\hFF, Shr(input, 4)),
                    BitAnd(\hF0, Shl(input, 4)) >>
    IN  [retval |-> e, regs |-> i2c_write(r, address, bytes, e)]

write_uint12(r, address, value, e) ==
    LET input == Small(clamp_val(value, <<>>, Big(\hFFF)))
        bytes == << BitAnd(\hFF, Shr(input, 4)),
                    BitAnd(\hF0, Shl(input, 4)) >>
    IN  [retval |-> e, regs |-> i2c_write(r, address, bytes, e)]

---------------------------------------------------------------------------
(* Undefined behaviour: every outcome a build can produce.                 *)

\* A signed product in a w-bit long.  When the exact product is no long the
\* multiplication overflows: the build either wraps it (-fno-strict-overflow)
\* or, holding that overflow cannot happen, carries the exact product on.
SMulOutcomes(a, b, w) ==
    LET exact == SMul(a, b)
    IN  IF FitsSigned(exact, w) THEN {exact}
        ELSE {exact, ToSigned(ToUnsigned(exact, w), w)}

\* The quotients an unsigned division can leave: a / b, and for b = 0
\* whatever the divide instruction or the division helper leaves (0 on arm
\* and arm64); the build that traps instead is DivideTraps.
UDivOutcomes(a, b) == IF b = <<>> THEN {<<>>} ELSE {Div(a, b)}
SDivOutcomes(a, b) == IF b.mag = <<>> THEN {Signed(FALSE, <<>>)} ELSE {SDiv(a, b)}
DivideTraps(b) == b = <<>>

---------------------------------------------------------------------------
(* The attribute handlers.  A show handler gives the set of its possible   *)
(* outcomes [fault, buf]: the text put in buf, or fault when the handler   *)
(* dies in a divide trap.  A set handler gives the set of its possible     *)
(* outcomes [fault, issued, bus, value, retval, regs], one for each end    *)
(* its bus transaction can take.                                           *)

Shown(text) == [fault |-> FALSE, buf |-> text]
Trapped == [fault |-> TRUE, buf |-> <<>>]

show_power_value(r, address, e, w) ==
    LET output == Big(read_uint24(r, address, e))
        nwatt == ModPow2(Mul(output, Big(POWER_VALUE_TO_NWATT)), w)
    IN  {Shown(sprintf_ld(Div(nwatt, Big(1000)), w))}

show_voltage_value(d, r, address, e, w) ==
    LET output == Big(read_uint12(r, address, e))
        uvolt == ModPow2(Mul(output, Big(VOLTAGE_VALUE_TO_MICROVOLT)), w)
        mvolt == Div(uvolt, Big(1000))
        total == ModPow2(Add(d.adin_r1, d.adin_r2), 32)
        scaled == ModPow2(Mul(mvolt, total), w)
    IN  {Shown(sprintf_ld(q, w)) : q \in UDivOutcomes(scaled, d.adin_r2)}
        \cup (IF DivideTraps(d.adin_r2) THEN {Trapped} ELSE {})

\* The read handler dividing by the sense resistance before it scales the
\* register value to nanovolts.
show_current_value_divide_first(d, r, address, e, w) ==
    LET output == Big(read_uint12(r, address, e))
    IN  {Shown(sprintf_ld(ModPow2(Mul(q, Big(SENSE_VALUE_TO_NANOVOLT)), 32), w))
         : q \in UDivOutcomes(output, d.sense_resistance)}
        \cup (IF DivideTraps(d.sense_resistance) THEN {Trapped} ELSE {})

show_current_value(d, r, address, e, w) ==
    LET nvolt == ModPow2(Mul(Big(read_uint12(r, address, e)),
                             Big(SENSE_VALUE_TO_NANOVOLT)), 32)
    IN  {Shown(sprintf_ld(q, w)) : q \in UDivOutcomes(nvolt, d.sense_resistance)}
        \cup (IF DivideTraps(d.sense_resistance) THEN {Trapped} ELSE {})

Rejected(r) ==
    [fault |-> FALSE, issued |-> FALSE, bus |-> 0, value |-> <<>>,
     retval |-> -EINVAL, regs |-> r]
Died(r) ==
    [fault |-> TRUE, issued |-> FALSE, bus |-> 0, value |-> <<>>,
     retval |-> 0, regs |-> r]
\* The tail of a set handler: wr is what write_uint24 or write_uint12 gave.
Stored(value, wr, count) ==
    [fault |-> FALSE, issued |-> TRUE, bus |-> wr.retval, value |-> value,
     retval |-> IF wr.retval < 0 THEN wr.retval ELSE count, regs |-> wr.regs]

set_power_value(r, address, buf, count, w) ==
    LET p == kstrtol(buf, w)
        inputs == { SDiv(m, Signed(FALSE, Big(POWER_VALUE_TO_NWATT)))
                    : m \in SMulOutcomes(p.val, Signed(FALSE, Big(1000)), w) }
    IN  IF p.err # 0 THEN {Rejected(r)}
        ELSE { Stored(value, write_uint24(r, address, value, e), count)
               : value \in {ToUnsigned(input, 32) : input \in inputs},
                 e \in BusResults }

\* (input * adin_r2) / (adin_r1 + adin_r2): with a 64-bit long both operands
\* are converted to long; with a 32-bit long both are converted to unsigned
\* long and the quotient is converted back.
voltage_divide(input, d, w) ==
    LET total == ModPow2(Add(d.adin_r1, d.adin_r2), 32)
    IN  IF w = 64
        THEN UNION { SDivOutcomes(m, Signed(FALSE, total))
                     : m \in SMulOutcomes(input, Signed(FALSE, d.adin_r2), w) }
        ELSE { ToSigned(q, w)
               : q \in UDivOutcomes(ModPow2(Mul(ToUnsigned(input, w), d.adin_r2), w),
                                    total) }

\* The set handler with the test of kstrtol's result left out.
set_voltage_value_unchecked(d, r, address, buf, count, w) ==
    LET p == kstrtol(buf, w)
        uvolt == SDiv(p.val, Signed(FALSE, Big(VOLTAGE_VALUE_TO_MICROVOLT)))
        mvolt == SDiv(uvolt, Signed(FALSE, Big(1000)))
    IN  { Stored(value, write_uint12(r, address, value, e), count)
          : value \in {ToUnsigned(input, 32) : input \in voltage_divide(mvolt, d, w)},
            e \in BusResults }

set_voltage_value(d, r, address, buf, count, w) ==
    LET p == kstrtol(buf, w)
        uvolt == SDiv(p.val, Signed(FALSE, Big(VOLTAGE_VALUE_TO_MICROVOLT)))
        mvolt == SDiv(uvolt, Signed(FALSE, Big(1000)))
    IN  IF p.err # 0 THEN {Rejected(r)}
        ELSE { Stored(value, write_uint12(r, address, value, e), count)
               : value \in {ToUnsigned(input, 32) : input \in voltage_divide(mvolt, d, w)},
                 e \in BusResults }
             \cup (IF DivideTraps(ModPow2(Add(d.adin_r1, d.adin_r2), 32))
                   THEN {Died(r)} ELSE {})

\* input * sense_resistance, converted as in voltage_divide.
current_nvolt(input, d, w) ==
    IF w = 64 THEN SMulOutcomes(input, Signed(FALSE, d.sense_resistance), w)
    ELSE {ToSigned(ModPow2(Mul(ToUnsigned(input, w), d.sense_resistance), w), w)}

set_current_value(d, r, address, buf, count, w) ==
    LET p == kstrtol(buf, w)
        inputs == { SDiv(nvolt, Signed(FALSE, Big(SENSE_VALUE_TO_NANOVOLT)))
                    : nvolt \in current_nvolt(p.val, d, w) }
    IN  IF p.err # 0 THEN {Rejected(r)}
        ELSE { Stored(value, write_uint12(r, address, value, e), count)
               : value \in {ToUnsigned(input, 32) : input \in inputs},
                 e \in BusResults }

\* The nine attributes: SENSOR_DEVICE_ATTR and the show_/set_ wrappers.
PowerAttrs == {"power1_max", "power1_min", "power1_input"}
VoltageAttrs == {"in1_max", "in1_min", "in1_input"}
CurrentAttrs == {"curr1_max", "curr1_min", "curr1_input"}
ltc2946_attrs == PowerAttrs \cup VoltageAttrs \cup CurrentAttrs
Writable == {"power1_max", "power1_min", "in1_max", "in1_min", "curr1_max", "curr1_min"}

RegOf(a) ==
    CASE a = "power1_max" -> REG_POWER_MAX
      [] a = "power1_min" -> REG_POWER_MIN
      [] a = "power1_input" -> REG_POWER
      [] a = "in1_max" -> REG_VOLTAGE_MAX
      [] a = "in1_min" -> REG_VOLTAGE_MIN
      [] a = "in1_input" -> REG_VOLTAGE
      [] a = "curr1_max" -> REG_SENSE_MAX
      [] a = "curr1_min" -> REG_SENSE_MIN
      [] a = "curr1_input" -> REG_SENSE

show(a, d, r, e, w) ==
    IF a \in PowerAttrs THEN show_power_value(r, RegOf(a), e, w)
    ELSE IF a \in VoltageAttrs THEN show_voltage_value(d, r, RegOf(a), e, w)
    ELSE show_current_value(d, r, RegOf(a), e, w)

store(a, d, r, buf, count, w) ==
    IF a \in PowerAttrs THEN set_power_value(r, RegOf(a), buf, count, w)
    ELSE IF a \in VoltageAttrs THEN set_voltage_value(d, r, RegOf(a), buf, count, w)
    ELSE set_current_value(d, r, RegOf(a), buf, count, w)

---------------------------------------------------------------------------
(* probe and remove.                                                       *)

\* of_property_read_u32: 0 and the value when the node has the property, an
\* error and nothing stored when it has not.
of_property_read_u32(node, key) ==
    IF node[key].present THEN [retval |-> 0, out |-> node[key].val]
    ELSE [retval |-> -EINVAL, out |-> <<>>]

\* The lookup with its fallback left out: the field keeps what the lookup
\* stored, or the zero of the allocation.
ResolveNoDefault(node, key, default) == of_property_read_u32(node, key).out

\* A calibration field after its lookup: "if (retval) field = default".
Resolve(node, key, default) ==
    LET got == of_property_read_u32(node, key)
    IN  IF got.retval # 0 THEN Big(default) ELSE got.out

NoData == [sense_resistance |-> <<>>, adin_r1 |-> <<>>, adin_r2 |-> <<>>]
NoCall == [op |-> "none", attr |-> "", reg |-> -1, raw |-> -1, buf |-> <<>>,
           count |-> 0, value |-> <<>>, issued |-> FALSE, bus |-> 0, ret |-> 0,
           fault |-> FALSE, during |-> ""]
Unwritten == [reg |-> -1, value |-> <<>>, buf |-> <<>>]

\* devm_kzalloc, i2c_set_clientdata.
ProbeAlloc ==
    /\ pc = "probe"
    /\ \E ok \in BOOLEAN :
         IF ok THEN /\ data' = NoData
                    /\ pc' = "of_read"
                    /\ UNCHANGED probe_ret
         ELSE /\ probe_ret' = -ENOMEM
              /\ pc' = "done"
              /\ UNCHANGED data
    /\ UNCHANGED <<bits_per_long, of_node, hwmon_dev, regs, last, written, calls>>

\* The three property lookups with their defaults.
ProbeReadProps ==
    /\ pc = "of_read"
    /\ data' = [sense_resistance |->
                    Resolve(of_node, "sense-resistance-microohm",
                            SENSE_RESISTANCE_MICROOHM_DEFAULT),
                adin_r1 |-> Resolve(of_node, "adin-div-r1", ADIN_R1_DEFAULT),
                adin_r2 |-> Resolve(of_node, "adin-div-r2", ADIN_R2_DEFAULT)]
    /\ pc' = "register"
    /\ UNCHANGED <<bits_per_long, of_node, hwmon_dev, probe_ret, regs, last, written, calls>>

\* devm_hwmon_device_register_with_groups: from here on the attributes are
\* in sysfs, unless registration failed.
ProbeRegister ==
    /\ pc = "register"
    /\ \E err \in {0, -ENOMEM, -EINVAL} :
         hwmon_dev' = IF err = 0 THEN [state |-> "registered", err |-> 0]
                      ELSE [state |-> "error", err |-> err]
    /\ pc' = "ctrla"
    /\ UNCHANGED <<bits_per_long, of_node, data, probe_ret, regs, last, written, calls>>

\* "Set CTRLA register to use ADIN"; the result of the write is dropped.
ProbeInitWrite ==
    /\ pc = "ctrla"
    /\ \E e \in BusResults : regs' = i2c_write(regs, REG_CTRLA, <<CTRLA_ADIN>>, e)
    /\ pc' = "return"
    /\ UNCHANGED <<bits_per_long, of_node, data, hwmon_dev, probe_ret, last, written, calls>>

ProbeReturn ==
    /\ pc = "return"
    /\ probe_ret' = IF hwmon_dev.state = "error" THEN hwmon_dev.err ELSE 0
    /\ pc' = "done"
    /\ UNCHANGED <<bits_per_long, of_node, data, hwmon_dev, regs, last, written, calls>>

\* ltc2946_remove returns 0; devm then releases the hwmon device.
Remove ==
    /\ pc = "done"
    /\ probe_ret = 0
    /\ pc' = "removed"
    /\ hwmon_dev' = [state |-> "released", err |-> 0]
    /\ UNCHANGED <<bits_per_long, of_node, data, probe_ret, regs, last, written, calls>>

---------------------------------------------------------------------------
(* sysfs calls, the chip, and direct calls of the codec.                   *)

Exposed == hwmon_dev.state = "registered"

\* The low nibble of a 12-bit register's second byte carries no data: pad.
ChipBytes(a, raw, pad) ==
    IF a \in PowerAttrs
    THEN <<raw \div 65536, (raw \div 256) % 256, raw % 256>>
    ELSE <<raw \div 16, (raw % 16) * 16 + pad>>

\* The register content as the chip holds it.
ChipRaw(r, a) ==
    IF a \in PowerAttrs
    THEN r[RegOf(a)] * 65536 + r[RegOf(a) + 1] * 256 + r[RegOf(a) + 2]
    ELSE r[RegOf(a)] * 16 + r[RegOf(a) + 1] \div 16

\* A read of attribute a, its bus transaction ending with e.  raw notes what
\* the chip held in the register when it was read; sprintf returns the
\* number of characters it wrote.
Show(a, e) ==
    /\ Exposed
    /\ calls < MaxCalls
    /\ \E o \in show(a, data, regs, e, bits_per_long) :
         last' = [op |-> "show", attr |-> a, reg |-> RegOf(a),
                  raw |-> ChipRaw(regs, a), buf |-> o.buf,
                  count |-> 0, value |-> <<>>, issued |-> TRUE, bus |-> e,
                  ret |-> Len(o.buf), fault |-> o.fault, during |-> pc]
    /\ calls' = calls + 1
    /\ UNCHANGED <<bits_per_long, of_node, data, pc, hwmon_dev, probe_ret, regs, written>>

\* A write of text buf to attribute a.
Store(a, buf) ==
    /\ Exposed
    /\ calls < MaxCalls
    /\ a \in Writable
    /\ \E o \in store(a, data, regs, buf, Len(buf), bits_per_long) :
         /\ regs' = o.regs
         /\ last' = [op |-> "store", attr |-> a, reg |-> RegOf(a), raw |-> -1,
                     buf |-> buf, count |-> Len(buf), value |-> o.value, issued |-> o.issued,
                     bus |-> o.bus, ret |-> o.retval, fault |-> o.fault,
                     during |-> pc]
         /\ written' = IF o.issued /\ o.bus = 0
                       THEN [reg |-> RegOf(a), value |-> o.value, buf |-> buf]
                       ELSE IF o.issued /\ written.reg = RegOf(a) THEN Unwritten
                       ELSE written
    /\ calls' = calls + 1
    /\ UNCHANGED <<bits_per_long, of_node, data, pc, hwmon_dev, probe_ret>>

\* The chip finishes a conversion, or moves a peak register, on its own.
DeviceUpdate(a, raw, pad) ==
    /\ calls < MaxCalls
    /\ regs' = i2c_write(regs, RegOf(a), ChipBytes(a, raw, pad), 0)
    /\ written' = IF written.reg = RegOf(a) THEN Unwritten ELSE written
    /\ calls' = calls + 1
    /\ UNCHANGED <<bits_per_long, of_node, data, pc, hwmon_dev, probe_ret, last>>

\* A direct call of the encoder of a's register with any unsigned int.
CodecWrite(a, value, e) ==
    /\ calls < MaxCalls
    /\ LET wr == IF a \in PowerAttrs THEN write_uint24(regs, RegOf(a), value, e)
                 ELSE write_uint12(regs, RegOf(a), value, e)
       IN  /\ regs' = wr.regs
           /\ last' = [op |-> "write", attr |-> a, reg |-> RegOf(a), raw |-> -1,
                       buf |-> <<>>, count |-> 0, value |-> value, issued |-> TRUE,
                       bus |-> e, ret |-> wr.retval, fault |-> FALSE, during |-> pc]
    /\ written' = IF e = 0 THEN [reg |-> RegOf(a), value |-> value, buf |-> <<>>]
                  ELSE IF written.reg = RegOf(a) THEN Unwritten
                  ELSE written
    /\ calls' = calls + 1
    /\ UNCHANGED <<bits_per_long, of_node, data, pc, hwmon_dev, probe_ret>>

\* A direct call of the decoder of a's register.
CodecRead(a, e) ==
    /\ calls < MaxCalls
    /\ last' = [op |-> "read", attr |-> a, reg |-> RegOf(a), raw |-> ChipRaw(regs, a),
                buf |-> <<>>, count |-> 0, value |-> <<>>, issued |-> TRUE, bus |-> e,
                ret |-> IF a \in PowerAttrs THEN read_uint24(regs, RegOf(a), e)
                        ELSE read_uint12(regs, RegOf(a), e),
                fault |-> FALSE, during |-> pc]
    /\ calls' = calls + 1
    /\ UNCHANGED <<bits_per_long, of_node, data, pc, hwmon_dev, probe_ret, regs, written>>

---------------------------------------------------------------------------
(* Initial states and the inputs the specifications draw from.             *)

U32Max == <<255, 255, 255, 255>>

Absent == [present |-> FALSE, val |-> <<>>]
Given(v) == [present |-> TRUE, val |-> v]
Node(s, r1, r2) ==
    [k \in {"sense-resistance-microohm", "adin-div-r1", "adin-div-r2"} |->
        IF k = "sense-resistance-microohm" THEN s
        ELSE IF k = "adin-div-r1" THEN r1 ELSE r2]

\* Every subset of the keys, each present key with 0, 1 or the largest u32.
PropertyValues == {Absent} \cup {Given(v) : v \in {<<>>, <<1>>, U32Max}}
AllNodes == {Node(s, r1, r2) : s \in PropertyValues, r1 \in PropertyValues,
                               r2 \in PropertyValues}

InitOver(nodes) ==
    /\ bits_per_long \in {32, 64}
    /\ of_node \in nodes
    /\ data = NoData
    /\ pc = "probe"
    /\ hwmon_dev = [state |-> "none", err |-> 0]
    /\ probe_ret = 0
    /\ regs = [a \in RegBytes |-> 0]
    /\ last = NoCall
    /\ written = Unwritten
    /\ calls = 0

ProbeNext == ProbeAlloc \/ ProbeReadProps \/ ProbeRegister \/ ProbeInitWrite
             \/ ProbeReturn \/ Remove

\* Attach with any node, and reads of every attribute while and after it.
Init == InitOver(AllNodes)
ShowAny == \E a \in ltc2946_attrs, e \in BusResults : Show(a, e)
Next == ProbeNext \/ ShowAny
Spec == Init /\ [][Next]_vars

\* C8: after attach, whatever the node holds (any subset of the three keys,
\* each present key with any u32), sense_resistance, adin_r1 and adin_r2 are
\* all above zero, so that no attribute call divides by zero.
C8_CalibrationPositive ==
    (pc = "done" /\ probe_ret = 0) =>
        /\ data.sense_resistance # <<>>
        /\ data.adin_r1 # <<>>
        /\ data.adin_r2 # <<>>
        /\ ~last.fault

KeyResolved(key, field, default) ==
    field = IF of_node[key].present THEN of_node[key].val ELSE Big(default)

\* C9: each calibration key is resolved on its own: a key the node has gives
\* its value, a missing key gives its default (1000, 1, 1000); a missing key
\* never makes probe fail (probe goes on to register, and returns 0 whenever
\* registration succeeded); with no key at all the data is {1000, 1, 1000}.
C9_KeysResolved ==
    /\ (pc \in {"register", "ctrla", "return", "removed"}
           \/ (pc = "done" /\ hwmon_dev.state # "none")) =>
           /\ KeyResolved("sense-resistance-microohm", data.sense_resistance, 1000)
           /\ KeyResolved("adin-div-r1", data.adin_r1, 1)
           /\ KeyResolved("adin-div-r2", data.adin_r2, 1000)
    /\ pc \in {"of_read", "register", "ctrla", "return"} => probe_ret = 0
    /\ pc = "done" /\ hwmon_dev.state = "registered" => probe_ret = 0
    /\ pc = "done" /\ probe_ret = 0 /\ of_node = Node(Absent, Absent, Absent) =>
           data = [sense_resistance |-> Big(1000), adin_r1 |-> Big(1),
                   adin_r2 |-> Big(1000)]

\* Probe has returned 0 for a node with no key, and a node with only
\* adin-div-r1 (set to the largest u32) is told apart from it.
C9_Witness ==
    /\ pc = "done"
    /\ probe_ret = 0
    /\ of_node = Node(Absent, Given(U32Max), Absent)
    /\ data = [sense_resistance |-> Big(1000), adin_r1 |-> U32Max, adin_r2 |-> Big(1000)]

\* C10: the CTRLA write (0x10 to register 0) is on the bus before any
\* attribute read is served: every read happens after probe's write.
C10_InitWriteBeforeReads ==
    last.op = "show" => last.during \in {"return", "done"}

---------------------------------------------------------------------------
(* The attached device: probe has returned 0 for a node, the attributes    *)
(* are registered and CTRLA is written.                                    *)

InitAttached(nodes) ==
    /\ bits_per_long \in {32, 64}
    /\ of_node \in nodes
    /\ data = [sense_resistance |->
                   Resolve(of_node, "sense-resistance-microohm",
                           SENSE_RESISTANCE_MICROOHM_DEFAULT),
               adin_r1 |-> Resolve(of_node, "adin-div-r1", ADIN_R1_DEFAULT),
               adin_r2 |-> Resolve(of_node, "adin-div-r2", ADIN_R2_DEFAULT)]
    /\ pc = "done"
    /\ hwmon_dev = [state |-> "registered", err |-> 0]
    /\ probe_ret = 0
    /\ regs = [a \in RegBytes |-> IF a = REG_CTRLA THEN CTRLA_ADIN ELSE 0]
    /\ last = NoCall
    /\ written = Unwritten
    /\ calls = 0

Text(n) == Decimal(Big(n))
Line(n) == Decimal(Big(n)) \o <<"\n">>

\* Texts kstrtol rejects: empty, trailing junk, two newlines, a value no
\* long long holds.
BadTexts == { <<>>, <<"1", "2", "a">>, <<"7", "\n", "\n">>,
              Text(2000000000) \o Text(2000000000) \o Text(20) }

\* LONG_MAX of a 64-bit long: no long on a 32-bit build.
LongMaxText == Text(922337203) \o Text(685477580) \o <<"7">>

---------------------------------------------------------------------------
(* The power attributes.                                                   *)

PowerTexts == { Line(100), <<"+">> \o Text(31), <<"-">> \o Line(100), Text(2147484),
                Text(524287999), Line(524288000), LongMaxText } \cup BadTexts
PowerRaws == {1, 137439, 16777215}

InitPower == InitAttached({Node(Absent, Absent, Absent)})
PowerShow == \E a \in PowerAttrs, e \in BusResults : Show(a, e)
PowerStore == \E a \in PowerAttrs \cap Writable, buf \in PowerTexts : Store(a, buf)
PowerUpdate == \E a \in PowerAttrs, raw \in PowerRaws : DeviceUpdate(a, raw, 0)
NextPower == PowerShow \/ PowerStore \/ PowerUpdate \/ Remove
SpecPower == InitPower /\ [][NextPower]_vars

\* floor(s / k) for a signed s and a natural k above zero.
FloorDiv(s, k) ==
    IF s.neg THEN Signed(TRUE, Div(Add(s.mag, Sub(k, Big(1))), k))
    ELSE Signed(FALSE, Div(s.mag, k))

\* The integer a written text stands for.
InputOf(buf) == kstrtoll(buf).val

\* C4: after a successful write of an integer input to power1_max or
\* power1_min, a read of the same attribute with no write in between and the
\* bus succeeding gives floor(floor(input * 1000 / 31250) * 31250 / 1000).
C4_PowerRoundTrip ==
    (/\ last.op = "show"
     /\ last.attr \in {"power1_max", "power1_min"}
     /\ last.bus = 0
     /\ written.reg = last.reg) =>
        LET raw == FloorDiv(SMul(InputOf(written.buf), Signed(FALSE, Big(1000))),
                            Big(31250))
            back == FloorDiv(SMul(raw, Signed(FALSE, Big(31250))), Big(1000))
        IN  /\ ~last.fault
            /\ last.buf = SignedText(back) \o <<"\n">>

---------------------------------------------------------------------------
(* The voltage attributes, on four boards: the default divider (1, 1000),  *)
(* no divider (1, 1), adin-div-r1 at the largest u32, and adin-div-r2 at 0.*)

VoltageNodes == { Node(Absent, Absent, Absent),
                  Node(Absent, Given(<<1>>), Given(<<1>>)),
                  Node(Absent, Given(U32Max), Given(<<1>>)),
                  Node(Absent, Given(<<1>>), Given(<<>>)) }
VoltageTexts == { Text(5000), Line(3000000), <<"-">> \o Text(1000000), LongMaxText,
                  <<"1", "2", "a">> }
VoltageRaws == {3, 256, 4095}

InitVoltage == InitAttached(VoltageNodes)
VoltageShow == \E a \in VoltageAttrs, e \in BusResults : Show(a, e)
VoltageStore == \E a \in VoltageAttrs \cap Writable, buf \in VoltageTexts : Store(a, buf)
VoltageUpdate == \E a \in VoltageAttrs, raw \in VoltageRaws, pad \in {0, 15} :
                     DeviceUpdate(a, raw, pad)
NextVoltage == VoltageShow \/ VoltageStore \/ VoltageUpdate \/ Remove
SpecVoltage == InitVoltage /\ [][NextVoltage]_vars

\* C5: a write of input_mv to in1_max or in1_min with calibration (r1, r2)
\* hands write_uint12 the value ((input_mv * r2) / (r1 + r2)) / 500, both
\* divisions truncating: the divider ratio first, then the scale.
C5_VoltageEncoded ==
    (/\ last.op = "store"
     /\ last.attr \in {"in1_max", "in1_min"}
     /\ last.issued) =>
        LET divided == SDiv(SMul(InputOf(last.buf), Signed(FALSE, data.adin_r2)),
                            Signed(FALSE, Add(data.adin_r1, data.adin_r2)))
        IN  last.value = ToUnsigned(SDiv(divided, Signed(FALSE, Big(500))), 32)

\* C6: for every 12-bit register value and every (r1, r2) with r2 > 0, a
\* read of in1_max, in1_min or in1_input gives
\* ((raw * 500) / 1000) * (r1 + r2) / r2, each division truncating; raw
\* 0x100 with r1 = r2 = 1 reads as 256.
C6_VoltageShown ==
    (/\ last.op = "show"
     /\ last.attr \in VoltageAttrs
     /\ last.bus = 0
     /\ data.adin_r2 # <<>>) =>
        LET mv == Div(Mul(Big(last.raw), Big(500)), Big(1000))
            out == Div(Mul(mv, Add(data.adin_r1, data.adin_r2)), data.adin_r2)
        IN  /\ ~last.fault
            /\ last.buf = Decimal(out) \o <<"\n">>
            /\ (last.raw = 256 /\ data.adin_r1 = <<1>> /\ data.adin_r2 = <<1>>) =>
                   last.buf = <<"2", "5", "6", "\n">>

---------------------------------------------------------------------------
(* The current attributes, with the default sense resistance, with 1, 3    *)
(* and the largest u32, and with 0.                                        *)

CurrentNodes == { Node(Absent, Absent, Absent),
                  Node(Given(<<1>>), Absent, Absent),
                  Node(Given(<<3>>), Absent, Absent),
                  Node(Given(U32Max), Absent, Absent),
                  Node(Given(<<>>), Absent, Absent) }
CurrentTexts == { Line(25000), <<"-">> \o Text(25), LongMaxText, <<"1", "2", "a">> }
CurrentRaws == {1, 1000, 4095}

InitCurrent == InitAttached(CurrentNodes)
CurrentShow == \E a \in CurrentAttrs, e \in BusResults : Show(a, e)
CurrentStore == \E a \in CurrentAttrs \cap Writable, buf \in CurrentTexts : Store(a, buf)
CurrentUpdate == \E a \in CurrentAttrs, raw \in CurrentRaws, pad \in {0, 15} :
                     DeviceUpdate(a, raw, pad)
NextCurrent == CurrentShow \/ CurrentStore \/ CurrentUpdate \/ Remove
SpecCurrent == InitCurrent /\ [][NextCurrent]_vars

\* C7: for every 12-bit register value and every sense resistance above
\* zero, a read of curr1_max, curr1_min or curr1_input gives
\* (raw * 25000) / sense_resistance, truncated, nothing overflowing on the
\* way; raw 0x3E8 with a sense resistance of 1000 reads as 25000.
C7_CurrentShown ==
    (/\ last.op = "show"
     /\ last.attr \in CurrentAttrs
     /\ last.bus = 0
     /\ data.sense_resistance # <<>>) =>
        /\ ~last.fault
        /\ last.buf = Decimal(Div(Mul(Big(last.raw), Big(25000)), data.sense_resistance))
                           \o <<"\n">>
        /\ (last.raw = 1000 /\ data.sense_resistance = Big(1000)) =>
               last.buf = <<"2", "5", "0", "0", "0", "\n">>

\* curr1_input was read with 0x3E8 in the register and the default sense
\* resistance of 1000, and the text was "25000\n".
C7_Witness ==
    /\ last.op = "show"
    /\ last.attr = "curr1_input"
    /\ last.bus = 0
    /\ last.raw = 1000
    /\ data.sense_resistance = Big(1000)
    /\ last.buf = <<"2", "5", "0", "0", "0", "\n">>

---------------------------------------------------------------------------
(* All nine attributes of an attached device.                              *)

SysfsTexts == { Line(100), <<"-">> \o Text(5000), <<"-">>, <<" ", "5">> } \cup BadTexts

InitSysfs == InitAttached({Node(Absent, Absent, Absent)})
SysfsShow == \E a \in ltc2946_attrs, e \in BusResults : Show(a, e)
SysfsStore == \E a \in Writable, buf \in SysfsTexts : Store(a, buf)
NextSysfs == SysfsShow \/ SysfsStore \/ Remove
SpecSysfs == InitSysfs /\ [][NextSysfs]_vars

\* C1: a read of any attribute or a write of a writable one whose bus
\* transaction failed returns that error, never a length or a byte count.
C1_BusErrorReturned ==
    (last.op \in {"show", "store"} /\ last.issued /\ last.bus # 0) =>
        last.ret = last.bus

\* A base-10 integer as text: an optional sign, one digit or more, and
\* at most one newline after them.
RECURSIVE AllDigits(_)
AllDigits(s) == s = <<>> \/ (IsDigit(s[1]) /\ AllDigits(Tail(s)))

Unsigned(s) ==
    LET body == IF s # <<>> /\ s[Len(s)] = "\n" THEN SubSeq(s, 1, Len(s) - 1) ELSE s
    IN  body # <<>> /\ AllDigits(body)

WellFormed(s) ==
    IF s # <<>> /\ s[1] \in {"-", "+"} THEN Unsigned(Tail(s)) ELSE Unsigned(s)

\* C2: a write to any of the six writable attributes whose text is no
\* base-10 integer returns -EINVAL, puts no write on the bus and leaves
\* every register as it was.
C2_MalformedRejected ==
    [][ (calls' = calls + 1 /\ last'.op = "store" /\ ~WellFormed(last'.buf)) =>
            /\ last'.ret = -22
            /\ ~last'.issued
            /\ ~last'.fault
            /\ regs' = regs ]_vars

\* A write of "12a" to in1_min was turned down after a write of "100\n"
\* to in1_max had set the register.
C2_Witness ==
    /\ last.op = "store"
    /\ last.attr = "in1_min"
    /\ last.buf = <<"1", "2", "a">>
    /\ last.ret = -22
    /\ written.reg = REG_VOLTAGE_MAX

---------------------------------------------------------------------------
(* The register codec on its own.                                          *)

\* Unsigned ints below, at and above both field maxima, up to UINT_MAX.
CodecValues == { <<>>, Big(\hABC), Big(\hFFF), Big(\h1000), Big(\h1ABC),
                 Big(\h123456), Big(\hFFFFFF), Big(\h1000000), U32Max }

\* Two registers of each width.
CodecAttrs == {"power1_max", "power1_min", "curr1_min", "in1_max"}

InitCodec == InitAttached({Node(Absent, Absent, Absent)})
CodecWriteAny == \E a \in CodecAttrs, value \in CodecValues, e \in BusResults :
                     CodecWrite(a, value, e)
CodecReadAny == \E a \in CodecAttrs, e \in BusResults : CodecRead(a, e)
NextCodec == CodecWriteAny \/ CodecReadAny
SpecCodec == InitCodec /\ [][NextCodec]_vars

\* min(v, max) without clamp_val.
Saturated(v, max) == IF Less(max, v) THEN max ELSE v

\* C3: for every unsigned value v, write_uint24 of v and then read_uint24 at
\* the same address gives clamp(v, 0, 0xFFFFFF), and write_uint12 of v and
\* then read_uint12 at the same address gives clamp(v, 0, 0xFFF), when the
\* bus stores and returns the bytes unchanged.
C3_CodecRoundTrip ==
    (last.op = "read" /\ last.bus = 0 /\ written.reg = last.reg) =>
        Big(last.ret) = Saturated(written.value,
                                  IF last.attr \in PowerAttrs THEN <<255, 255, 255>>
                                  ELSE <<255, 15>>)

\* 0x1ABC went through the 12-bit codec and 0xFFF came back.
C3_Witness ==
    /\ last.op = "read"
    /\ last.bus = 0
    /\ last.reg = REG_SENSE_MIN
    /\ written = [reg |-> REG_SENSE_MIN, value |-> Big(\h1ABC), buf |-> <<>>]
    /\ last.ret = 4095

=============================================================================
